---- MODULE Spec2Model ----
(***************************************************************************)
(* A model of the PullWeights MCP server: the registry client              *)
(* (PullWeightsClient) and the tool handlers of index.ts (ls, search,      *)
(* inspect, tags, pull, push).  Strings that the code takes apart          *)
(* (model references, file paths) are sequences of one-character strings.  *)
(***************************************************************************)
EXTENDS Integers, Sequences, FiniteSets, TLC

VARIABLES
    apiKey,     \* PullWeightsClient.apiKey, read once from the environment
    tool,       \* the tool invocation being served ("idle" before the first)
    pc,         \* position of the running handler (its pending await)
    args,       \* the argument object of the invocation
    ref,        \* the result of parseModelRef(args.model)
    calls,      \* client methods called by this invocation, with their outcome
    http,       \* requests put on the wire by this invocation, in order
    result,     \* what the invocation returned or threw
    plan,       \* pull: pullRes.files
    destDir,    \* pull: destDir
    idx,        \* pull: index of the file of the plan being processed
    buffer,     \* pull: the downloaded, verified bytes awaiting writeFile
    disk,       \* pull: the file system, path -> content
    downloaded, \* pull: the files written by this invocation, in order
    fileInfos,  \* push: one entry per args.files, filled by the hashing phase
    uploads,    \* push: initRes.uploads
    upIdx       \* push: index of the upload entry in flight

vars == <<apiKey, tool, pc, args, ref, calls, http, result, plan, destDir,
          idx, buffer, disk, downloaded, fileInfos, uploads, upIdx>>

pullVars == <<plan, destDir, idx, buffer, disk, downloaded>>
pushVars == <<fileInfos, uploads, upIdx>>

-----------------------------------------------------------------------------
(* Bounds of the model *)

\* longest reference string given to parseModelRef on its own
MaxRefLen == 5
\* most files in a pull plan, most paths in a push, most entries of an upload list
MaxFiles == 2

-----------------------------------------------------------------------------
(* Strings *)

SLASH == "/"
COLON == ":"
latest == <<"l", "a", "t", "e", "s", "t">>

\* String.prototype.split with a one-character separator: the segments
\* between the separators; the empty string splits into one empty segment.
RECURSIVE split(_, _)
split(s, sep) ==
    IF s = <<>> THEN << <<>> >>
    ELSE LET rest == split(Tail(s), sep) IN
         IF Head(s) = sep
         THEN << <<>> >> \o rest
         ELSE << <<Head(s)>> \o Head(rest) >> \o Tail(rest)

\* String.prototype.includes for a one-character needle
includes(s, ch) == \E i \in 1..Len(s) : s[i] = ch

\* Array.prototype.pop on the result of split: its last segment
pop(segs) == segs[Len(segs)]

-----------------------------------------------------------------------------
(* parseModelRef *)

\* the value standing for a thrown "Invalid model reference" error
InvalidRef == [ok |-> FALSE, org |-> <<>>, model |-> <<>>, tag |-> <<>>]

\* a slip: the destructuring default is left out, an absent tag stays empty
parseModelRef_NoDefault(r) ==
    LET pieces == split(r, COLON)
        tag == IF Len(pieces) >= 2 THEN pieces[2] ELSE <<>>
        parts == split(pieces[1], SLASH)
    IN  IF Len(parts) # 2 \/ parts[1] = <<>> \/ parts[2] = <<>>
        THEN InvalidRef
        ELSE [ok |-> TRUE, org |-> parts[1], model |-> parts[2], tag |-> tag]

parseModelRef(r) ==
    LET pieces == split(r, COLON)
        modelPart == pieces[1]
        \* destructuring default: only an absent second element is "latest"
        tag == IF Len(pieces) >= 2 THEN pieces[2] ELSE latest
        parts == split(modelPart, SLASH)
    IN  IF Len(parts) # 2 \/ parts[1] = <<>> \/ parts[2] = <<>>
        THEN InvalidRef
        ELSE [ok |-> TRUE, org |-> parts[1], model |-> parts[2], tag |-> tag]

\* the reference a parsed result stands for, org/model:tag
formatRef(p) == p.org \o <<SLASH>> \o p.model \o <<COLON>> \o p.tag

-----------------------------------------------------------------------------
(* Values shared by the specifications *)

Undefined == "undefined"
NoRef == [ok |-> FALSE, org |-> <<>>, model |-> <<>>, tag |-> <<"?">>]
NoResult == [kind |-> "none"]

\* process.env.PULLWEIGHTS_API_KEY: unset, set to the empty string, or a key
ApiKeys == {Undefined, "", "pw_key"}

InitCommon ==
    /\ ref = NoRef
    /\ calls = <<>>
    /\ http = <<>>
    /\ result = NoResult
    /\ plan = <<>>
    /\ destDir = <<>>
    /\ idx = 0
    /\ buffer = Undefined
    /\ disk = <<>>
    /\ downloaded = <<>>
    /\ fileInfos = <<>>
    /\ uploads = <<>>
    /\ upIdx = 0

-----------------------------------------------------------------------------
(* PullWeightsClient *)

\* JavaScript truthiness of an optional string
truthy(v) == v # Undefined /\ v # ""

\* headers(): the names of the headers of a registry request
headers(key) ==
    {"User-Agent", "Accept"} \cup (IF truthy(key) THEN {"Authorization"} ELSE {})

\* requireAuth(): TRUE when it returns, FALSE when it throws
requireAuth(key) == truthy(key)

AuthenticationRequired == [kind |-> "error", type |-> "AuthenticationRequired"]

Methods == {"search", "listModels", "listOrgs", "getManifest", "listTags",
            "pull", "pushInit", "pushFinalize"}

\* a slip: pushFinalize and listOrgs left without the check
AuthMethods_Forgotten == {"pull", "pushInit"}

\* the methods whose first statement is this.requireAuth()
AuthMethods == {"listOrgs", "pull", "pushInit", "pushFinalize"}

\* the status of a request still in flight
NoStatus == 0

\* Response.ok
ok(status) == status \in 200..299

Statuses == {200, 404, 500}

statusText(status) ==
    CASE status = 200 -> "OK"
      [] status = 403 -> "Forbidden"
      [] status = 404 -> "Not Found"
      [] OTHER -> "Internal Server Error"

\* Bodies of an error response: json is FALSE when res.json() or the "in"
\* test throws (not JSON, or JSON that is no object); Undefined is an absent field.
ErrorBodies ==
    {[json |-> FALSE, error |-> Undefined, message |-> Undefined],
     [json |-> TRUE, error |-> "quota exceeded", message |-> Undefined],
     [json |-> TRUE, error |-> "quota exceeded", message |-> "try later"],
     [json |-> TRUE, error |-> "", message |-> "try later"],
     [json |-> TRUE, error |-> Undefined, message |-> "try later"],
     [json |-> TRUE, error |-> Undefined, message |-> ""],
     [json |-> TRUE, error |-> Undefined, message |-> Undefined]}

\* a slip: the message field is looked at before the error field
errorMessage_MessageFirst(status, body) ==
    IF ~body.json THEN statusText(status)
    ELSE IF truthy(body.message) THEN body.message
    ELSE IF body.error # Undefined THEN body.error
    ELSE statusText(status)

\* request(): the message of the error thrown for a non-2xx response
errorMessage(status, body) ==
    IF ~body.json THEN statusText(status)
    ELSE IF body.error # Undefined THEN body.error
    ELSE IF truthy(body.message) THEN body.message
    ELSE statusText(status)

RequestError(status, body) ==
    [kind |-> "error", type |-> "RequestError", status |-> status,
     message |-> errorMessage(status, body)]

\* this.baseUrl
baseUrl == <<"baseUrl">>

\* init?.headers: the headers a method hands to request()
initHeaders(op) ==
    IF op \in {"pushInit", "pushFinalize"} THEN {"Content-Type"} ELSE {}

\* request(): the fetch it issues, addressed to baseUrl + path; body is the
\* body of an error response, once it has come
request(op, payload) ==
    [op |-> op, to |-> baseUrl, headers |-> headers(apiKey) \cup initHeaders(op),
     payload |-> payload, status |-> NoStatus, body |-> Undefined]

\* a slip: the upload is sent the way request() sends, under the base URL
\* and with the client's headers
uploadToS3_ViaRequest(url, data) ==
    [op |-> "uploadToS3", to |-> baseUrl \o url,
     headers |-> headers(apiKey) \cup {"Content-Type", "Content-Length"},
     payload |-> data, status |-> NoStatus]

\* uploadToS3(): the fetch it issues, addressed to the given url as it is
uploadToS3(url, data) ==
    [op |-> "uploadToS3", to |-> url,
     headers |-> {"Content-Type", "Content-Length"}, payload |-> data,
     status |-> NoStatus]

\* The synchronous part of a call of a client method, up to the await of its
\* fetch: requireAuth in the methods that call it, then request().  before
\* and sent are the calls made and the requests sent by the invocation so far.
ClientCall(op, payload, waitPc, before, sent) ==
        IF op \in AuthMethods /\ ~requireAuth(apiKey)
        THEN /\ calls' = Append(before, [op |-> op, outcome |-> "AuthenticationRequired"])
             /\ http' = sent
             /\ pc' = "failed"
             /\ result' = AuthenticationRequired
        ELSE /\ calls' = Append(before, [op |-> op, outcome |-> "sent"])
             /\ http' = Append(sent, request(op, payload))
             /\ pc' = waitPc
             /\ result' = NoResult

\* the log once the request in flight, the last one sent, got its response
Answered(status) == [http EXCEPT ![Len(http)].status = status]

\* the awaits of a registry response
RegistryWaits == {"wait", "plan_wait", "init_wait", "finalize_wait"}

\* request(): a non-2xx response; the error propagates out of the handler
RequestFails ==
    /\ pc \in RegistryWaits
    /\ \E status \in Statuses, body \in ErrorBodies :
          /\ ~ok(status)
          /\ result' = RequestError(status, body)
          /\ http' = [Answered(status) EXCEPT ![Len(http)].body = body]
    /\ pc' = "failed"
    /\ UNCHANGED <<apiKey, tool, args, ref, calls, pullVars, pushVars>>

\* a 2xx response to the one request of a method called on its own or of
\* search, ls, inspect and tags, which then only format it
RequestReturns ==
    /\ pc = "wait"
    /\ \E status \in Statuses : ok(status) /\ http' = Answered(status)
    /\ pc' = "done"
    /\ result' = [kind |-> "ok"]
    /\ UNCHANGED <<apiKey, tool, args, ref, calls, pullVars, pushVars>>

-----------------------------------------------------------------------------
(* SpecClient: the methods of PullWeightsClient called one at a time *)

NoArgs == [none |-> TRUE]

\* the server between two invocations
InitTools ==
    /\ InitCommon
    /\ apiKey \in ApiKeys
    /\ tool = "idle"
    /\ pc = "idle"
    /\ args = NoArgs

InitClient == InitTools

Idle == pc = "idle"

\* The invocation is over: its result or its error goes back to the caller,
\* and the locals of the handler are gone.  What was written to disk stays.
Replies ==
    /\ pc \in {"done", "failed"}
    /\ pc' = "idle"
    /\ tool' = "idle"
    /\ args' = NoArgs
    /\ ref' = NoRef
    /\ calls' = <<>> /\ http' = <<>> /\ result' = NoResult
    /\ plan' = <<>> /\ destDir' = <<>> /\ idx' = 0 /\ buffer' = Undefined
    /\ downloaded' = <<>>
    /\ fileInfos' = <<>> /\ uploads' = <<>> /\ upIdx' = 0
    /\ UNCHANGED <<apiKey, disk>>

ClientInvoke ==
    /\ Idle
    /\ \E op \in Methods :
          /\ args' = [op |-> op]
          /\ ClientCall(op, NoArgs, "wait", <<>>, <<>>)
    /\ tool' = "client"
    /\ UNCHANGED <<apiKey, ref, pullVars, pushVars>>

NextClient == ClientInvoke \/ RequestReturns \/ RequestFails \/ Replies

SpecClient == InitClient /\ [][NextClient]_vars

-----------------------------------------------------------------------------
(* The tools search, ls, inspect and tags *)

RefBare == <<"a", SLASH, "b">>
RefTagged == <<"a", SLASH, "b", COLON, "v">>
RefEmptyTag == <<"a", SLASH, "b", COLON>>
RefNoSlash == <<"a">>
ToolRefs == {RefBare, RefTagged, RefEmptyTag, RefNoSlash}

\* the org argument of ls: absent, the empty string, or a name
OrgArgs == {Undefined, "", "acme"}

ValidationError == [kind |-> "error", type |-> "ValidationError"]

\* a throw before the first client call of an invocation
Throws(err) ==
    /\ pc' = "failed"
    /\ result' = err
    /\ calls' = <<>>
    /\ http' = <<>>

ToolSearch ==
    /\ Idle
    /\ tool' = "search"
    /\ args' = NoArgs
    /\ ref' = NoRef
    /\ ClientCall("search", NoArgs, "wait", <<>>, <<>>)
    /\ UNCHANGED <<apiKey, pullVars, pushVars>>

ToolLs ==
    /\ Idle
    /\ \E org \in OrgArgs :
          /\ args' = [org |-> org]
          /\ IF truthy(org)
             THEN ClientCall("listModels", [org |-> org], "wait", <<>>, <<>>)
             ELSE ClientCall("listOrgs", NoArgs, "wait", <<>>, <<>>)
    /\ tool' = "ls"
    /\ ref' = NoRef
    /\ UNCHANGED <<apiKey, pullVars, pushVars>>

ToolInspect ==
    /\ Idle
    /\ \E model \in ToolRefs :
          /\ args' = [model |-> model]
          /\ ref' = parseModelRef(model)
    /\ tool' = "inspect"
    /\ IF ref'.ok
       THEN ClientCall("getManifest", ref', "wait", <<>>, <<>>)
       ELSE Throws(ValidationError)
    /\ UNCHANGED <<apiKey, pullVars, pushVars>>

ToolTags ==
    /\ Idle
    /\ \E model \in ToolRefs :
          LET parts == split(model, SLASH) IN
          /\ args' = [model |-> model]
          /\ IF Len(parts) # 2 \/ parts[1] = <<>> \/ parts[2] = <<>>
             THEN Throws(ValidationError)
             ELSE ClientCall("listTags", [org |-> parts[1], model |-> parts[2]], "wait", <<>>, <<>>)
    /\ tool' = "tags"
    /\ ref' = NoRef
    /\ UNCHANGED <<apiKey, pullVars, pushVars>>

NextList ==
    \/ ToolSearch \/ ToolLs \/ ToolInspect \/ ToolTags \/ RequestReturns \/ RequestFails
    \/ Replies

SpecList == InitTools /\ [][NextList]_vars

-----------------------------------------------------------------------------
(* SpecUpdate: the update tool *)

\* the metadata fields of the update tool
UpdateFields == {"description", "visibility", "framework", "license", "tags"}

\* what a caller may give for a field: Undefined when it is left out
FieldValues(f) ==
    CASE f = "description" -> {Undefined, "", "text"}
      [] f = "visibility"  -> {Undefined, "public"}
      [] f = "framework"   -> {Undefined, "gguf"}
      [] f = "license"     -> {Undefined, "MIT"}
      [] f = "tags"        -> {Undefined, "[]"}

UpdateArgs ==
    [model : ToolRefs,
     description : FieldValues("description"),
     visibility : FieldValues("visibility"),
     framework : FieldValues("framework"),
     license : FieldValues("license"),
     tags : FieldValues("tags")]

\* the body the handler builds: one key per field that is not undefined
updateBody(a) ==
    [f \in {g \in UpdateFields : a[g] # Undefined} |-> a[f]]

\* the reply of the handler when the body has no key
NoFieldsToUpdate == [kind |-> "ok", text |-> "No fields to update"]

ToolUpdate ==
    /\ Idle
    /\ \E a \in UpdateArgs :
          LET parts == split(a.model, SLASH)
              body  == updateBody(a) IN
          /\ args' = a
          /\ IF Len(parts) # 2 \/ parts[1] = <<>> \/ parts[2] = <<>>
             THEN Throws(ValidationError)
             ELSE IF DOMAIN body = {}
             THEN /\ pc' = "done"
                  /\ result' = NoFieldsToUpdate
                  /\ calls' = <<>>
                  /\ http' = <<>>
             ELSE ClientCall("updateModel",
                             [org |-> parts[1], model |-> parts[2], body |-> body],
                             "wait", <<>>, <<>>)
    /\ tool' = "update"
    /\ ref' = NoRef
    /\ UNCHANGED <<apiKey, pullVars, pushVars>>

NextUpdate == ToolUpdate \/ RequestReturns \/ RequestFails \/ Replies

SpecUpdate == InitTools /\ [][NextUpdate]_vars

-----------------------------------------------------------------------------
(* Contents, digests and paths *)

\* File contents: byte sequences (bytes 0 and 1 suffice to tell contents apart)
Blobs == {<<0>>, <<0, 1>>}

\* sha256(): SHA-256 as a function of the whole content with no collisions
\* among the contents of the model (a bijective base-3 numeral of the bytes)
RECURSIVE sha256(_)
sha256(data) ==
    IF data = <<>> THEN 0
    ELSE sha256(SubSeq(data, 1, Len(data) - 1)) * 3 + data[Len(data)] + 1

Digests == {sha256(b) : b \in Blobs}

\* path.normalize on the segments of an absolute path: empty and "." segments
\* are dropped, ".." removes the segment before it (and stays at the root)
RECURSIVE normalize(_, _)
normalize(done, segs) ==
    IF segs = <<>> THEN done
    ELSE LET seg == Head(segs) IN
         IF seg = <<>> \/ seg = <<".">> THEN normalize(done, Tail(segs))
         ELSE IF seg = <<".", ".">>
              THEN normalize(IF done = <<>> THEN <<>> ELSE SubSeq(done, 1, Len(done) - 1),
                             Tail(segs))
              ELSE normalize(Append(done, seg), Tail(segs))

\* path.join(dir, filename), dir an absolute path given by its segments
join(dir, filename) == normalize(<<>>, dir \o split(filename, SLASH))

\* process.cwd()
cwd == << <<"cwd">> >>

\* path.resolve("pullweights_models", org, model, tag): built from the right
\* until an absolute segment is met; org and model hold no '/'
resolve(org, model, tag) ==
    IF tag # <<>> /\ Head(tag) = SLASH
    THEN normalize(<<>>, split(tag, SLASH))
    ELSE normalize(<<>>, cwd \o << <<"pullweights_models">>, org, model >> \o split(tag, SLASH))

-----------------------------------------------------------------------------
(* The pull tool *)

PullRefs == {RefBare, RefNoSlash}

\* the output_dir argument: absent, the empty string, or the directory /out
OutDir == << <<"out">> >>
OutputDirs == {Undefined, "", OutDir}

\* file.filename is whatever string the registry answers: a plain name, or a
\* name that climbs out of the directory it is joined to
PullNames == {<<"w">>, <<".", ".", SLASH, "w">>}

PullFiles == [filename : PullNames, sha256 : Digests, download_url : {<<"storage">>}]

\* pullRes.files: every list of at most MaxFiles files
Plans == UNION {[1..n -> PullFiles] : n \in 0..MaxFiles}

\* a slip: the comparison is skipped
checksumMatches_Always(checksum, declared) == TRUE

\* checksum !== file.sha256 is false
checksumMatches(checksum, declared) == checksum = declared

TransferError(filename, status) ==
    [kind |-> "error", type |-> "TransferError", filename |-> filename, status |-> status]

\* a slip: the two digests of the message change places
IntegrityError_Swapped(file, checksum) ==
    [kind |-> "error", type |-> "IntegrityError", filename |-> file.filename,
     expected |-> checksum, actual |-> file.sha256]

\* the "Checksum mismatch for ..." error
IntegrityError(file, checksum) ==
    [kind |-> "error", type |-> "IntegrityError", filename |-> file.filename,
     expected |-> file.sha256, actual |-> checksum]

FsError == [kind |-> "error", type |-> "FsError"]

\* fetch(file.download_url, { redirect: "follow" })
fetchFile(file) ==
    [op |-> "download", to |-> file.download_url, headers |-> {},
     payload |-> file.filename, status |-> NoStatus]

\* the for loop of pull at file k: past the end the handler returns, else it
\* fetches the file
PullFile(k) ==
    /\ buffer' = Undefined
    /\ IF k > Len(plan)
       THEN /\ pc' = "done"
            /\ result' = [kind |-> "ok"]
            /\ UNCHANGED <<http, idx>>
       ELSE /\ idx' = k
            /\ http' = Append(http, fetchFile(plan[k]))
            /\ pc' = "fetch_wait"
            /\ UNCHANGED result

ToolPull ==
    /\ Idle
    /\ \E model \in PullRefs, output_dir \in OutputDirs :
          /\ args' = [model |-> model, output_dir |-> output_dir]
          /\ ref' = parseModelRef(model)
    /\ tool' = "pull"
    /\ IF ref'.ok
       THEN ClientCall("pull", ref', "plan_wait", <<>>, <<>>)
       ELSE Throws(ValidationError)
    /\ plan' = <<>> /\ destDir' = <<>> /\ idx' = 0 /\ buffer' = Undefined
    /\ downloaded' = <<>>
    /\ UNCHANGED <<apiKey, disk, pushVars>>

\* client.pull returns the plan; destDir is chosen and mkdir is called
PlanReturns ==
    /\ pc = "plan_wait"
    /\ \E files \in Plans : plan' = files
    /\ \E status \in Statuses : ok(status) /\ http' = Answered(status)
    /\ destDir' = IF truthy(args.output_dir) THEN args.output_dir
                  ELSE resolve(ref.org, ref.model, ref.tag)
    /\ pc' = "mkdir_wait"
    /\ UNCHANGED <<apiKey, tool, args, ref, calls, result, idx, buffer, disk,
                   downloaded, pushVars>>

MkdirReturns ==
    /\ pc = "mkdir_wait"
    /\ PullFile(1)
    /\ UNCHANGED <<apiKey, tool, args, ref, calls, plan, destDir, disk, downloaded, pushVars>>

MkdirFails ==
    /\ pc = "mkdir_wait"
    /\ pc' = "failed"
    /\ result' = FsError
    /\ UNCHANGED <<apiKey, tool, args, ref, calls, http, pullVars, pushVars>>

\* the download answers with a non-2xx status
FetchFails ==
    /\ pc = "fetch_wait"
    /\ \E status \in Statuses :
          /\ ~ok(status)
          /\ result' = TransferError(plan[idx].filename, status)
          /\ http' = Answered(status)
    /\ pc' = "failed"
    /\ UNCHANGED <<apiKey, tool, args, ref, calls, pullVars, pushVars>>

\* the download answers 2xx with some bytes; they are hashed and compared,
\* and writeFile is called when the digests agree
FetchReturns ==
    /\ pc = "fetch_wait"
    /\ \E status \in Statuses : ok(status) /\ http' = Answered(status)
    /\ \E body \in Blobs :
          LET checksum == sha256(body) IN
          /\ buffer' = body
          /\ IF checksumMatches(checksum, plan[idx].sha256)
             THEN /\ pc' = "write_wait"
                  /\ UNCHANGED result
             ELSE /\ pc' = "failed"
                  /\ result' = IntegrityError(plan[idx], checksum)
    /\ UNCHANGED <<apiKey, tool, args, ref, calls, plan, destDir, idx, disk,
                   downloaded, pushVars>>

\* writeFile(filePath, buffer) has written the file; the loop goes on
WriteReturns ==
    /\ pc = "write_wait"
    /\ LET filePath == join(destDir, plan[idx].filename) IN
       /\ disk' = [q \in DOMAIN disk \cup {filePath} |->
                      IF q = filePath THEN buffer ELSE disk[q]]
       /\ downloaded' = Append(downloaded,
               [filename |-> plan[idx].filename, path |-> filePath, bytes |-> buffer])
    /\ PullFile(idx + 1)
    /\ UNCHANGED <<apiKey, tool, args, ref, calls, plan, destDir, pushVars>>

\* writeFile is refused (the file cannot be opened): nothing is written
WriteFails ==
    /\ pc = "write_wait"
    /\ pc' = "failed"
    /\ result' = FsError
    /\ UNCHANGED <<apiKey, tool, args, ref, calls, http, pullVars, pushVars>>

NextPull ==
    \/ ToolPull \/ RequestFails \/ PlanReturns \/ MkdirReturns \/ MkdirFails
    \/ FetchFails \/ FetchReturns \/ WriteReturns \/ WriteFails \/ Replies

SpecPull == InitTools /\ [][NextPull]_vars

-----------------------------------------------------------------------------
(* The push tool *)

PathAW == <<SLASH, "a", SLASH, "w">>
PathBW == <<SLASH, "b", SLASH, "w">>
PathAX == <<SLASH, "a", SLASH, "x">>
PushPaths == {PathAW, PathBW, PathAX}

\* the files argument: at least one path (z.array(z.string()).min(1))
PushFileLists == UNION {[1..n -> PushPaths] : n \in 1..MaxFiles}

\* initRes.uploads: any list the registry may answer, of the names asked for
\* or of another name
UploadNames == {<<"w">>, <<"x">>, <<"z">>}
UploadTargets == {[filename |-> n, upload_url |-> <<"s3">> \o n] : n \in UploadNames}
UploadLists == UNION {[1..n -> UploadTargets] : n \in 0..MaxFiles}

ExplicitTagRequired == [kind |-> "error", type |-> "ExplicitTagRequired"]
LogicError(filename) == [kind |-> "error", type |-> "LogicError", filename |-> filename]

\* the guard of "Push requires an explicit tag"
rejectsTag(r, model) == r.tag = latest /\ ~includes(model, COLON)

\* the async function of files.map at its start: readFile has been called
Reading(filePath) ==
    [path |-> filePath, stage |-> "readFile", data |-> Undefined,
     filename |-> Undefined, size_bytes |-> Undefined, sha256 |-> Undefined]

\* a slip: the handler goes on as soon as one file is hashed (Promise.race)
allHashed_AnyOne(infos) == \E i \in 1..Len(infos) : infos[i].stage = "done"

\* Promise.all resolves: every async function of files.map has returned
allHashed(infos) == \A i \in 1..Len(infos) : infos[i].stage = "done"

\* the body of pushInit: tag (description, visibility are passed through) and
\* one descriptor per file
initBody(r, infos) ==
    [tag |-> r.tag,
     files |-> [i \in 1..Len(infos) |->
                  [filename |-> infos[i].filename, size_bytes |-> infos[i].size_bytes,
                   sha256 |-> infos[i].sha256]]]

\* fileInfos.find((f) => f.filename === name): the index of the first match, 0 for none
find(infos, name) ==
    LET hits == {i \in 1..Len(infos) : infos[i].filename = name} IN
    IF hits = {} THEN 0 ELSE CHOOSE i \in hits : \A j \in hits : i <= j

\* the for loop of push at upload entry k, sent being the requests sent so
\* far: past the end pushFinalize is called, else the entry's file is looked
\* up and uploaded
PushUpload(ups, k, sent) ==
    IF k > Len(ups)
    THEN /\ ClientCall("pushFinalize", [push_id |-> "push_id", tag |-> ref.tag],
                       "finalize_wait", calls, sent)
         /\ UNCHANGED upIdx
    ELSE LET f == find(fileInfos, ups[k].filename) IN
         /\ upIdx' = k
         /\ calls' = calls
         /\ IF f = 0
            THEN /\ pc' = "failed"
                 /\ result' = LogicError(ups[k].filename)
                 /\ http' = sent
            ELSE /\ http' = Append(sent, uploadToS3(ups[k].upload_url, fileInfos[f].data))
                 /\ pc' = "upload_wait"
                 /\ result' = result

ToolPush ==
    /\ Idle
    /\ \E model \in ToolRefs, files \in PushFileLists :
          /\ args' = [model |-> model, files |-> files]
          /\ ref' = parseModelRef(model)
          /\ IF ~ref'.ok
             THEN Throws(ValidationError) /\ fileInfos' = <<>>
             ELSE IF rejectsTag(ref', model)
             THEN Throws(ExplicitTagRequired) /\ fileInfos' = <<>>
             ELSE /\ pc' = "hashing"
                  /\ fileInfos' = [i \in 1..Len(files) |-> Reading(files[i])]
                  /\ calls' = <<>> /\ http' = <<>> /\ result' = NoResult
    /\ tool' = "push"
    /\ uploads' = <<>> /\ upIdx' = 0
    /\ UNCHANGED <<apiKey, pullVars>>

\* readFile(filePath) returns the content the file has now; stat is called
ReadFileReturns ==
    /\ pc = "hashing"
    /\ \E i \in 1..Len(fileInfos), data \in Blobs :
          /\ fileInfos[i].stage = "readFile"
          /\ fileInfos' = [fileInfos EXCEPT ![i].stage = "stat", ![i].data = data]
    /\ UNCHANGED <<apiKey, tool, pc, args, ref, calls, http, result, pullVars, uploads, upIdx>>

\* readFile or stat rejects: Promise.all rejects and the handler throws
HashingFails ==
    /\ pc = "hashing"
    /\ \E i \in 1..Len(fileInfos) : fileInfos[i].stage \in {"readFile", "stat"}
    /\ pc' = "failed"
    /\ result' = FsError
    /\ UNCHANGED <<apiKey, tool, args, ref, calls, http, pullVars, pushVars>>

\* stat(filePath) returns the size the file has now (the file may have been
\* replaced since it was read); the async function returns its record, and
\* when it was the last one Promise.all resolves and pushInit is called
StatReturns ==
    /\ pc = "hashing"
    /\ \E i \in 1..Len(fileInfos), now \in Blobs :
          /\ fileInfos[i].stage = "stat"
          /\ fileInfos' = [fileInfos EXCEPT
                ![i].stage = "done",
                ![i].filename = pop(split(fileInfos[i].path, SLASH)),
                ![i].size_bytes = Len(now),
                ![i].sha256 = sha256(fileInfos[i].data)]
    /\ IF allHashed(fileInfos')
       THEN ClientCall("pushInit", initBody(ref, fileInfos'), "init_wait", calls, http)
       ELSE UNCHANGED <<pc, calls, http, result>>
    /\ UNCHANGED <<apiKey, tool, args, ref, pullVars, uploads, upIdx>>

\* pushInit returns the session; the upload loop starts
InitReturns ==
    /\ pc = "init_wait"
    /\ \E ups \in UploadLists, status \in Statuses :
          /\ ok(status)
          /\ uploads' = ups
          /\ PushUpload(ups, 1, Answered(status))
    /\ UNCHANGED <<apiKey, tool, args, ref, pullVars, fileInfos>>

\* uploadToS3 returns (2xx); the loop goes on
UploadReturns ==
    /\ pc = "upload_wait"
    /\ \E status \in Statuses :
          /\ ok(status)
          /\ PushUpload(uploads, upIdx + 1, Answered(status))
    /\ UNCHANGED <<apiKey, tool, args, ref, pullVars, fileInfos, uploads>>

\* a slip: uploadToS3 does not look at res.ok, a failed upload goes unnoticed
UploadFails_Unnoticed ==
    /\ pc = "upload_wait"
    /\ \E status \in Statuses :
          /\ ~ok(status)
          /\ PushUpload(uploads, upIdx + 1, Answered(status))
    /\ UNCHANGED <<apiKey, tool, args, ref, pullVars, fileInfos, uploads>>

\* uploadToS3 throws "S3 upload failed" on a non-2xx status
UploadFails ==
    /\ pc = "upload_wait"
    /\ \E status \in Statuses :
          /\ ~ok(status)
          /\ result' = TransferError(uploads[upIdx].filename, status)
          /\ http' = Answered(status)
    /\ pc' = "failed"
    /\ UNCHANGED <<apiKey, tool, args, ref, calls, pullVars, pushVars>>

\* pushFinalize returns the result, which is formatted
FinalizeReturns ==
    /\ pc = "finalize_wait"
    /\ \E status \in Statuses : ok(status) /\ http' = Answered(status)
    /\ pc' = "done"
    /\ result' = [kind |-> "ok"]
    /\ UNCHANGED <<apiKey, tool, args, ref, calls, pullVars, pushVars>>

NextPush ==
    \/ ToolPush \/ ReadFileReturns \/ HashingFails \/ StatReturns \/ RequestFails
    \/ InitReturns \/ UploadReturns \/ UploadFails \/ FinalizeReturns \/ Replies

SpecPush == InitTools /\ [][NextPush]_vars

-----------------------------------------------------------------------------
(* SpecParse: parseModelRef applied to every string up to MaxRefLen *)

RefAlphabet == {"a", "b", SLASH, COLON}

RECURSIVE StringsUpTo(_, _)
StringsUpTo(alphabet, n) ==
    IF n = 0 THEN {<<>>}
    ELSE LET shorter == StringsUpTo(alphabet, n - 1) IN
         shorter \cup {<<c>> \o s : c \in alphabet, s \in {t \in shorter : Len(t) = n - 1}}

RefStrings == StringsUpTo(RefAlphabet, MaxRefLen)

InitParse ==
    /\ InitCommon
    /\ apiKey = Undefined
    /\ tool = "parseModelRef"
    /\ pc = "input"
    /\ args \in {[model |-> s] : s \in RefStrings}

\* the call parseModelRef(model)
ParseRef ==
    /\ tool = "parseModelRef" /\ pc = "input"
    /\ ref' = parseModelRef(args.model)
    /\ pc' = "parsed"
    /\ UNCHANGED <<apiKey, tool, args, calls, http, result, pullVars, pushVars>>

NextParse == ParseRef

SpecParse == InitParse /\ [][NextParse]_vars

-----------------------------------------------------------------------------
(* Claims about parseModelRef, checked under SpecParse *)

Parsed == tool = "parseModelRef" /\ pc = "parsed"

\* a non-empty segment holding neither separator
Segment(s) == s # <<>> /\ \A k \in 1..Len(s) : s[k] \notin {SLASH, COLON}

CountOf(s, ch) == Cardinality({k \in 1..Len(s) : s[k] = ch})

\* C9: for every reference org/name or org/name:tag (org, name and tag non-empty
\* segments), parseModelRef returns the org and name that were written, the
\* written tag when there is one and "latest" otherwise, and rebuilding
\* org/name:tag from the result gives back the input (with ":latest" added
\* when no tag was written).
C9_ParseRoundTrip ==
    Parsed =>
        LET s == args.model IN
        \A i \in 1..Len(s) :
            LET org == SubSeq(s, 1, i - 1)
                rest == SubSeq(s, i + 1, Len(s))
            IN  (s[i] = SLASH /\ Segment(org)) =>
                  /\ Segment(rest) =>
                        /\ ref = [ok |-> TRUE, org |-> org, model |-> rest, tag |-> latest]
                        /\ formatRef(ref) = s \o <<COLON>> \o latest
                  /\ \A j \in (i + 1)..Len(s) :
                        LET name == SubSeq(s, i + 1, j - 1)
                            tag == SubSeq(s, j + 1, Len(s))
                        IN  (s[j] = COLON /\ Segment(name) /\ Segment(tag)) =>
                              /\ ref = [ok |-> TRUE, org |-> org, model |-> name, tag |-> tag]
                              /\ formatRef(ref) = s

\* C9 witness: the tagged reference "b/a:b" has been parsed into org "b",
\* name "a" and tag "b".
C9_Witness ==
    /\ Parsed
    /\ args.model = <<"b", SLASH, "a", COLON, "b">>
    /\ ref = [ok |-> TRUE, org |-> <<"b">>, model |-> <<"a">>, tag |-> <<"b">>]

\* C10 as claimed: a reference is accepted only if the whole string holds
\* exactly one '/', with a non-empty org before it and a non-empty name after
\* it; and the returned org and name hold no '/'.
C10_ExactlyOneSlash ==
    (Parsed /\ ref.ok) =>
        LET s == args.model IN
        /\ CountOf(s, SLASH) = 1
        /\ \E i \in 2..(Len(s) - 1) : s[i] = SLASH
        /\ ~includes(ref.org, SLASH)
        /\ ~includes(ref.model, SLASH)

-----------------------------------------------------------------------------
(* Claims about the client, checked under SpecClient *)

\* C5: with no API key configured, a call of listOrgs, pull, pushInit or
\* pushFinalize fails with the authentication-required error and puts no
\* request on the wire; a call of search, listModels, getManifest or listTags
\* never fails with that error and always sends its request.
C5_AuthFailFast ==
    tool = "client" =>
        \A i \in 1..Len(calls) :
            LET op == calls[i].op IN
            /\ (op \in {"listOrgs", "pull", "pushInit", "pushFinalize"} /\ ~truthy(apiKey)) =>
                  /\ calls[i].outcome = "AuthenticationRequired"
                  /\ result = AuthenticationRequired
                  /\ pc = "failed"
                  /\ http = <<>>
            /\ op \in {"search", "listModels", "getManifest", "listTags"} =>
                  /\ calls[i].outcome = "sent"
                  /\ result # AuthenticationRequired
                  /\ Len(http) = 1 /\ http[1].op = op

\* C5 witness: pushFinalize called with no key: it threw and nothing was sent
C5_Witness ==
    /\ tool = "client" /\ apiKey = Undefined
    /\ calls = <<[op |-> "pushFinalize", outcome |-> "AuthenticationRequired"]>>
    /\ http = <<>> /\ pc = "failed"

-----------------------------------------------------------------------------
(* Claims about ls, checked under SpecList *)

\* C6 as claimed: whenever an org argument is supplied, whatever string it is,
\* ls calls listModels and does not fail for want of a credential; when it is
\* absent, ls calls listOrgs, which fails locally without a credential.
C6_LsAuthOnlyWithoutOrg ==
    (tool = "ls" /\ Len(calls) > 0) =>
        /\ args.org # Undefined =>
              /\ calls[1].op = "listModels"
              /\ result # AuthenticationRequired
        /\ args.org = Undefined =>
              /\ calls[1].op = "listOrgs"
              /\ ~truthy(apiKey) => (result = AuthenticationRequired /\ http = <<>>)

-----------------------------------------------------------------------------
(* Claims about pull, checked under SpecPull *)

\* the content the writes of this invocation have left at the path of its i-th write
LastWritten(i) ==
    LET same == {j \in 1..Len(downloaded) : downloaded[j].path = downloaded[i].path}
        last == CHOOSE j \in same : \A m \in same : m <= j
    IN  downloaded[last].bytes

Downloads == {i \in 1..Len(http) : http[i].op = "download"}

\* C2: the bytes handed to writeFile are the complete download and hash to the
\* digest the plan declares for that file; and every file this pull has
\* written was written with content of the declared digest and holds, on
\* disk, the content of its last write.
C2_WrittenOnlyIfVerified ==
    tool = "pull" =>
        /\ pc = "write_wait" => sha256(buffer) = plan[idx].sha256
        /\ \A i \in 1..Len(downloaded) :
              /\ i <= Len(plan)
              /\ downloaded[i].filename = plan[i].filename
              /\ downloaded[i].path = join(destDir, plan[i].filename)
              /\ sha256(downloaded[i].bytes) = plan[i].sha256
              /\ downloaded[i].path \in DOMAIN disk
              /\ disk[downloaded[i].path] = LastWritten(i)

\* C2 witness: two files of one plan, of different contents, both written
C2_Witness ==
    /\ tool = "pull" /\ pc = "done" /\ Len(downloaded) = 2
    /\ downloaded[1].bytes # downloaded[2].bytes
    /\ downloaded[1].path # downloaded[2].path
    /\ disk[downloaded[2].path] = downloaded[2].bytes

\* C3: when the bytes downloaded for the k-th file hash to another digest than
\* the declared one, the pull has aborted with an error naming the file, the
\* expected and the actual digest; exactly k downloads were started and
\* exactly k-1 files written, and the files written before are still on disk
\* with the content written.
C3_MismatchAborts ==
    (tool = "pull" /\ idx \in 1..Len(plan) /\ buffer # Undefined
        /\ sha256(buffer) # plan[idx].sha256) =>
        /\ pc = "failed"
        /\ result = [kind |-> "error", type |-> "IntegrityError",
                     filename |-> plan[idx].filename,
                     expected |-> plan[idx].sha256, actual |-> sha256(buffer)]
        /\ Cardinality(Downloads) = idx
        /\ Len(downloaded) = idx - 1
        /\ \A i \in 1..Len(downloaded) :
              /\ downloaded[i].filename = plan[i].filename
              /\ disk[downloaded[i].path] = LastWritten(i)

\* C3 witness: the second file of a plan failed verification after the first
\* was written, and the first is on disk
C3_Witness ==
    /\ tool = "pull" /\ pc = "failed" /\ idx = 2
    /\ result.type = "IntegrityError"
    /\ Len(downloaded) = 1
    /\ disk[downloaded[1].path] = downloaded[1].bytes

-----------------------------------------------------------------------------
(* Claims about push, checked under SpecPush *)

Sent(op) == {i \in 1..Len(http) : http[i].op = op}

\* C1: the requests of a push are, in this order, one pushInit, then one blob
\* upload per entry of the upload list init returned, to that entry's url and
\* in the list's order, then one pushFinalize; a push that reaches finalize
\* has sent them all; and once a blob upload got a non-2xx status no
\* pushFinalize is sent.
C1_PushCallOrder ==
    tool = "push" =>
        /\ \A i \in 1..Len(http) :
              \/ i = 1 /\ http[i].op = "pushInit"
              \/ /\ i \in 2..(Len(uploads) + 1)
                 /\ http[i].op = "uploadToS3"
                 /\ http[i].to = uploads[i - 1].upload_url
              \/ i = Len(uploads) + 2 /\ http[i].op = "pushFinalize"
        /\ pc \in {"finalize_wait", "done"} => Len(http) = Len(uploads) + 2
        /\ \A i \in Sent("uploadToS3") :
              (http[i].status # NoStatus /\ ~ok(http[i].status)) =>
                  Sent("pushFinalize") = {}

\* C1 witness: a push of two files that got two upload targets has finished,
\* with four requests on the wire
C1_Witness ==
    /\ tool = "push" /\ pc = "done"
    /\ Len(args.files) = 2 /\ Len(uploads) = 2
    /\ uploads[1].filename # uploads[2].filename
    /\ Len(http) = 4

\* a tag is written in a reference when something follows its first ':'
TagWritten(model) ==
    LET pieces == split(model, COLON) IN Len(pieces) >= 2 /\ pieces[2] # <<>>

\* C4 as claimed: a push whose reference has no tag written in it puts no
\* request on the wire (no pushInit, no blob upload, no pushFinalize).
C4_NoTagNoNetwork ==
    (tool = "push" /\ ~TagWritten(args.model)) => http = <<>>

\* C7: before the first client call or request of a push, every path given
\* has been read, hashed and its size recorded; and a push that failed on a
\* file it could not read or stat has made no client call and sent no request.
C7_HashBeforeNetwork ==
    tool = "push" =>
        /\ (calls # <<>> \/ http # <<>>) =>
              /\ Len(fileInfos) = Len(args.files)
              /\ \A i \in 1..Len(fileInfos) :
                    /\ fileInfos[i].stage = "done"
                    /\ fileInfos[i].path = args.files[i]
                    /\ fileInfos[i].data \in Blobs
                    /\ fileInfos[i].sha256 = sha256(fileInfos[i].data)
                    /\ fileInfos[i].size_bytes \in Nat
        /\ result = FsError => (calls = <<>> /\ http = <<>>)

\* C7 witness: of two files one was hashed and the other could not be read;
\* the push failed with nothing sent
C7_Witness ==
    /\ tool = "push" /\ pc = "failed" /\ result = FsError
    /\ Len(fileInfos) = 2
    /\ fileInfos[1].stage = "done" /\ fileInfos[2].stage = "readFile"
    /\ http = <<>>

\* C8 as claimed: pushFinalize is sent only when the name of every file
\* descriptor sent in init is the filename of an entry of the upload list.
C8_FinalizeOnlyWithAllTargets ==
    (tool = "push" /\ Sent("pushFinalize") # {}) =>
        \A f \in 1..Len(fileInfos) :
            \E u \in 1..Len(uploads) : uploads[u].filename = fileInfos[f].filename

-----------------------------------------------------------------------------
(* Claims about the paths pull writes, checked under SpecPull *)

\* dir is a proper prefix of path, both given by their segments
Under(dir, path) == Len(path) > Len(dir) /\ SubSeq(path, 1, Len(dir)) = dir

\* C11 as claimed: every path pull writes has the destination directory of
\* that pull as a proper prefix, whatever filename the registry put in the plan.
C11_WritesUnderDestDir ==
    tool = "pull" =>
        \A i \in 1..Len(downloaded) : Under(destDir, downloaded[i].path)

-----------------------------------------------------------------------------
(* Claims about the requests of push, checked under SpecPush *)

\* C12: a blob upload goes to the upload_url of its entry as it was given,
\* not under the base URL, and without the Authorization header; every
\* request that carries the Authorization header is a registry request
\* addressed to the base URL.
C12_KeyOnlyToRegistry ==
    tool = "push" =>
        \A i \in 1..Len(http) :
            /\ http[i].op = "uploadToS3" =>
                  /\ "Authorization" \notin http[i].headers
                  /\ http[i].to = uploads[i - 1].upload_url
                  /\ SubSeq(http[i].to, 1, Len(baseUrl)) # baseUrl
            /\ "Authorization" \in http[i].headers =>
                  /\ http[i].to = baseUrl
                  /\ http[i].op \in {"pushInit", "pushFinalize"}

\* C12 witness: with a key configured, pushInit went out with the
\* Authorization header and a blob upload after it got its 2xx
C12_Witness ==
    /\ tool = "push" /\ truthy(apiKey)
    /\ Len(http) >= 2
    /\ "Authorization" \in http[1].headers
    /\ http[2].op = "uploadToS3" /\ ok(http[2].status)

-----------------------------------------------------------------------------
(* Claims about request(), checked under SpecClient *)

\* the last request of the invocation got a non-2xx response
Refused == http # <<>> /\ http[Len(http)].status # NoStatus /\ ~ok(http[Len(http)].status)

\* C13 as claimed: a non-2xx response makes the call fail with the status
\* code followed by the body's error field if the body is a JSON object with
\* one, else its message field if it has one, else (no such field, or no
\* JSON) the status text; it is never returned as a success.
C13_MessageIfPresent ==
    (tool = "client" /\ Refused) =>
        LET r == http[Len(http)]
            text == IF r.body.json /\ r.body.error # Undefined THEN r.body.error
                    ELSE IF r.body.json /\ r.body.message # Undefined THEN r.body.message
                    ELSE statusText(r.status)
        IN  /\ pc = "failed"
            /\ result = [kind |-> "error", type |-> "RequestError",
                         status |-> r.status, message |-> text]

\* C13 amended: as above, but the message field is used only when it is a
\* non-empty string; an empty message gives the status text.
C13_MessageIfNonEmpty ==
    (tool = "client" /\ Refused) =>
        LET r == http[Len(http)]
            text == IF r.body.json /\ r.body.error # Undefined THEN r.body.error
                    ELSE IF r.body.json /\ r.body.message \notin {Undefined, ""}
                         THEN r.body.message
                    ELSE statusText(r.status)
        IN  /\ pc = "failed"
            /\ result = [kind |-> "error", type |-> "RequestError",
                         status |-> r.status, message |-> text]

\* C13 witness: a 404 whose body carries both fields failed with the error field
C13_Witness ==
    /\ tool = "client" /\ Refused
    /\ http[Len(http)].status = 404
    /\ http[Len(http)].body = [json |-> TRUE, error |-> "quota exceeded", message |-> "try later"]
    /\ result.message = "quota exceeded"

-----------------------------------------------------------------------------
(* Claims about update, checked under SpecUpdate *)

\* none of the five fields was supplied
EmptyPayload == \A f \in UpdateFields : args[f] = Undefined

\* C14: an update invocation with none of the five fields supplied ends in a
\* ValidationError, as one with a malformed model reference does, and sends
\* no request.
C14_EmptyUpdateIsValidationError ==
    (tool = "update" /\ pc \in {"done", "failed"} /\ EmptyPayload) =>
        /\ pc = "failed"
        /\ result = ValidationError
        /\ http = <<>>

-----------------------------------------------------------------------------
(* Claims about the files of one push, checked under SpecPush *)

\* the files whose readFile or stat is under way
BeingRead == {i \in 1..Len(fileInfos) : fileInfos[i].stage \in {"readFile", "stat"}}

\* the files whose content the handler holds
Held == {i \in 1..Len(fileInfos) : fileInfos[i].stage \in {"stat", "done"}}

\* the blob transfers without a response yet
TransfersInFlight ==
    {i \in 1..Len(http) : http[i].op = "uploadToS3" /\ http[i].status = NoStatus}

\* C15: within one push the files are handled one after the other: at most
\* one file is being read or transferred at a time, and the content of at
\* most one file is held at a time.
C15_OneFileAtATime ==
    (tool = "push" /\ pc \notin {"done", "failed"}) =>
        /\ Cardinality(BeingRead) + Cardinality(TransfersInFlight) <= 1
        /\ Cardinality(Held) <= 1

\* C16: in a push that the registry answered with one upload target per
\* descriptor, named as the descriptors are, the bytes sent to the target of
\* each path have the SHA-256 and the length its descriptor declared.
C16_SentBytesMatchDescriptor ==
    (/\ tool = "push" /\ pc = "done"
     /\ Len(uploads) = Len(fileInfos)
     /\ \A i \in 1..Len(uploads) : uploads[i].filename = fileInfos[i].filename) =>
        \A i \in 1..Len(fileInfos) :
            /\ http[i + 1].op = "uploadToS3"
            /\ http[i + 1].to = uploads[i].upload_url
            /\ sha256(http[i + 1].payload) = http[1].payload.files[i].sha256
            /\ Len(http[i + 1].payload) = http[1].payload.files[i].size_bytes

-----------------------------------------------------------------------------
(* A claim about the tag of a parsed reference, checked under SpecParse *)

\* C17: parseModelRef either rejects its input or returns a non-empty tag,
\* so that every tag a handler passes to the client is non-empty.
C17_TagNonEmpty ==
    (Parsed /\ ref.ok) => ref.tag # <<>>

====
